---- MODULE Spec2Model ----
(***************************************************************************)
(* Model of app.py, the Streamlit crop recommendation page.                *)
(*                                                                         *)
(* Streamlit runs the whole script once per browser event of a session     *)
(* (page open, form submit, button click).  load_model is memoised for the *)
(* process by st.cache_resource; everything else is per run.  Real-valued  *)
(* fields are held in tenths (6.5 is 65), integer fields in units.         *)
(***************************************************************************)
EXTENDS Integers, Sequences, FiniteSets, TLC

VARIABLES files, cache, lock, loads, reads, loadFailed, memo,
          pc, event, typed, vals, partial, got, run, view, erred

vars == <<files, cache, lock, loads, reads, loadFailed, memo,
          pc, event, typed, vals, partial, got, run, view, erred>>

----------------------------------------------------------------------------
(* Bounds of the model *)

\* counters of storage reads and of completed loads saturate here
ReadCap == 2
\* how many steps beyond a field's minimum or maximum a user types
MaxOver == 1

Sessions == {"s1", "s2"}

None == "None"

----------------------------------------------------------------------------
(* The form: st.number_input(label, min_value, max_value, value, step) *)

Fields == {"N", "P", "K", "ph", "temperature", "humidity", "rainfall"}

Widgets ==
  [ N           |-> [min |-> 0,   max |-> 140,  value |-> 50,   step |-> 1],
    P           |-> [min |-> 5,   max |-> 145,  value |-> 50,   step |-> 1],
    K           |-> [min |-> 5,   max |-> 205,  value |-> 50,   step |-> 1],
    ph          |-> [min |-> 30,  max |-> 100,  value |-> 65,   step |-> 1],
    temperature |-> [min |-> 0,   max |-> 500,  value |-> 250,  step |-> 1],
    humidity    |-> [min |-> 100, max |-> 1000, value |-> 700,  step |-> 1],
    rainfall    |-> [min |-> 0,   max |-> 3000, value |-> 1000, step |-> 10] ]

Defaults == [f \in Fields |-> Widgets[f].value]

InRange(f, v) == Widgets[f].min <= v /\ v <= Widgets[f].max

InBounds(t) == \A f \in Fields : InRange(f, t[f])

Clamp(f, v) ==
  IF v < Widgets[f].min THEN Widgets[f].min
  ELSE IF v > Widgets[f].max THEN Widgets[f].max ELSE v

\* a widget that passes on whatever was typed
number_input_unchecked(f, prev, v) == {v}

\* The values a number input can hold after the user typed v into it: a value
\* within [min_value, max_value] is taken; one outside is never committed,
\* the widget keeps its previous value or pins it to the violated limit.
number_input(f, prev, v) ==
  IF InRange(f, v) THEN {v} ELSE {prev, Clamp(f, v)}

\* what a user types into one field
Typeable(f) ==
  {Widgets[f].value, Widgets[f].min, Widgets[f].max}
    \cup {Widgets[f].min - k * Widgets[f].step : k \in 1..MaxOver}
    \cup {Widgets[f].max + k * Widgets[f].step : k \in 1..MaxOver}

\* the readings of the specification's first scenario
Scenario1 ==
  [ N |-> 90, P |-> 42, K |-> 43, ph |-> 65, temperature |-> 209,
    humidity |-> 820, rainfall |-> 2029 ]

\* a filled form: the defaults with one field edited, or the scenario
Samples ==
  UNION {{[Defaults EXCEPT ![f] = v] : v \in Typeable(f)} : f \in Fields}
    \cup {Scenario1}

\* the forms submitted where sessions run concurrently: the defaults, and
\* the defaults with no nitrogen
DefaultOnly == {Defaults, [Defaults EXCEPT !["N"] = 0]}

----------------------------------------------------------------------------
(* The two pickled artifacts and what they unpickle to *)

\* crop_model.pkl: missing, not a pickle, a classifier, or a classifier that
\* raises on part of its input space
ModelFiles == {"absent", "corrupt", "good", "faulty"}
\* label_encoder.pkl: missing, not a pickle, the encoder of every class, or
\* an encoder fitted on fewer classes than the classifier predicts
EncoderFiles == {"absent", "corrupt", "full", "short"}

Unloadable == {"absent", "corrupt"}

Labels == <<"apple", "Maize", "rice">>

Upper == [c \in {"apple", "Maize", "rice"} |->
            CASE c = "apple" -> "APPLE" [] c = "Maize" -> "MAIZE" [] c = "rice" -> "RICE"]

Lower == [c \in {"apple", "Maize", "rice"} |->
            CASE c = "apple" -> "apple" [] c = "Maize" -> "maize" [] c = "rice" -> "rice"]

\* le.classes_ of an unpickled encoder
Classes(le) ==
  IF le = "full" THEN Labels
  ELSE IF le = "short" THEN SubSeq(Labels, 1, Len(Labels) - 1)
  ELSE << >>

Pairs == [model : {"good", "faulty"}, le : {"full", "short"}]

\* the pair of a consistent artifact set
Consistent(p) == p \in Pairs /\ p.model = "good" /\ p.le = "full"

----------------------------------------------------------------------------
(* The prediction pipeline, lines 124-171 *)

\* the vector in the order the widgets are declared
input_data_widget_order(v) ==
  <<v.N, v.P, v.K, v.ph, v.temperature, v.humidity, v.rainfall>>

\* np.array([[N, P, K, temperature, humidity, ph, rainfall]])
input_data(v) ==
  <<v.N, v.P, v.K, v.temperature, v.humidity, v.ph, v.rainfall>>

\* not all([...]): Python truth of a number is "differs from zero"
all_filled(v) == \A f \in Fields : v[f] # 0

RECURSIVE Weighted(_, _)
Weighted(x, i) == IF i = 0 THEN 0 ELSE i * x[i] + Weighted(x, i - 1)

\* The classifier stands for the opaque pickled estimator: a fixed function of
\* the ordered vector to a class index (0-based); the faulty one raises on
\* part of the input space, anything that is no estimator raises always.
predict(model, x) ==
  LET w == Weighted(x, Len(x)) IN
  IF model = "good" THEN [raised |-> FALSE, index |-> w % Len(Labels)]
  ELSE IF model = "faulty" /\ w % 2 = 0
    THEN [raised |-> FALSE, index |-> w % Len(Labels)]
  ELSE [raised |-> TRUE, index |-> -1]

\* le.inverse_transform([prediction])[0]: ValueError on an unseen index
inverse_transform(le, index) ==
  IF index + 1 \in 1..Len(Classes(le))
    THEN [raised |-> FALSE, crop |-> Classes(le)[index + 1]]
    ELSE [raised |-> TRUE, crop |-> None]

\* lines 132-134
Prediction(p, v) ==
  LET x == input_data(v)
      y == predict(p.model, x)
      c == inverse_transform(p.le, y.index)
  IN  IF y.raised
        THEN [raised |-> TRUE, exc |-> "predict", x |-> x, index |-> -1, crop |-> None]
      ELSE IF c.raised
        THEN [raised |-> TRUE, exc |-> "inverse_transform", x |-> x,
              index |-> y.index, crop |-> None]
      ELSE [raised |-> FALSE, exc |-> None, x |-> x, index |-> y.index, crop |-> c.crop]


\* what the except clause of line 170 handles: every Exception
handles_only_value_error(exc) == exc = "inverse_transform"

except_Exception(exc) == exc \in {"predict", "inverse_transform", "image"}

\* the image step without its own try: a failing Image.open or st.image
\* leaves the step as an exception
image_step_unguarded(crop, img) ==
  [path   |-> Lower[crop],
   result |-> IF img = "ok" THEN "shown" ELSE IF img = "absent" THEN "info" ELSE "raise"]

\* the image step without the os.path.exists test: a missing file fails in
\* Image.open and is reported as a warning
image_step_no_exists_test(crop, img) ==
  [path   |-> Lower[crop],
   result |-> IF img = "ok" THEN "shown" ELSE "warning"]

\* Lines 144-152.  img is what the file system holds at
\* crop_images/<lowercased name>.jpg when the step runs: nothing, an image
\* that opens and renders, or a file that Image.open or st.image fails on.
image_step(crop, img) ==
  [path   |-> Lower[crop],
   result |-> IF img = "absent" THEN "info"
              ELSE IF img = "ok" THEN "shown" ELSE "warning"]

ImageFiles == {"absent", "ok", "broken"}

NoDetails == [shown |-> FALSE, vals |-> Defaults, crop |-> None]

\* what one run of the script has put on the page
Blank ==
  [ loadError |-> FALSE,   \* st.error of line 25
    form      |-> FALSE,   \* the form of lines 85-121
    warning   |-> FALSE,   \* st.warning of line 127
    headline  |-> None,    \* the success box of lines 137-141
    image     |-> "none",  \* none, shown, info (line 150), warning (line 152)
    path      |-> None,    \* the image path looked up, without directory and .jpg
    details   |-> NoDetails, \* the expander of lines 155-168
    error     |-> FALSE,   \* st.error of line 171
    uncaught  |-> FALSE,   \* an exception that left the script
    reset     |-> FALSE ]  \* the button of line 175

\* the classifier call of a run: how often predict was invoked, on what, what
\* it returned, the name resolved, and what the image step found on disk
NoRun == [calls |-> 0, x |-> << >>, index |-> -1, crop |-> None, img |-> None]

\* Lines 85-176 of one run: the page, and the record of the classifier call.
\* sub is the value of `submitted`, p the pair load_model returned, v the
\* widgets' values, img the state of the image file.
Script(sub, p, v, img) ==
  LET page == [Blank EXCEPT !.form = TRUE] IN
  IF ~sub THEN [view |-> page, run |-> NoRun]
  ELSE IF ~all_filled(v)
    THEN [view |-> [page EXCEPT !.warning = TRUE], run |-> NoRun]
  ELSE
    LET r   == Prediction(p, v)
        ran == [calls |-> 1, x |-> r.x, index |-> r.index, crop |-> r.crop, img |-> None]
    IN
    IF r.raised
      THEN IF except_Exception(r.exc)
             THEN [view |-> [page EXCEPT !.error = TRUE, !.reset = TRUE], run |-> ran]
             ELSE [view |-> [page EXCEPT !.uncaught = TRUE], run |-> ran]
    ELSE
      LET im    == image_step(r.crop, img)
          shown == [page EXCEPT !.headline = Upper[r.crop], !.path = im.path]
      IN
      IF im.result = "raise"
        THEN IF except_Exception("image")
               THEN [view |-> [shown EXCEPT !.error = TRUE, !.reset = TRUE],
                     run  |-> [ran EXCEPT !.img = img]]
               ELSE [view |-> [shown EXCEPT !.uncaught = TRUE],
                     run  |-> [ran EXCEPT !.img = img]]
      ELSE [view |-> [shown EXCEPT !.image = im.result,
                                   !.details = [shown |-> TRUE, vals |-> v, crop |-> r.crop],
                                   !.reset = TRUE],
            run  |-> [ran EXCEPT !.img = img]]


----------------------------------------------------------------------------
(* State *)

\* what `model, le` hold when load_model returned no pair
NoPair == [model |-> None, le |-> None]

Inc(n) == IF n < ReadCap THEN n + 1 ELSE n

Init ==
  /\ files \in [model : ModelFiles, le : EncoderFiles]  \* the two .pkl files
  /\ cache = NoPair               \* st.cache_resource's entry for load_model
  /\ lock = None                  \* the cache's compute lock: its holder
  /\ loads = 0                    \* completed bodies of load_model (saturating)
  /\ reads = [model |-> 0, le |-> 0] \* reads of each file that exists (saturating)
  /\ loadFailed = FALSE           \* some load ended in the except clause
  /\ memo = {}                    \* one earlier recommendation, kept for comparison
  /\ pc = [s \in Sessions |-> "new"]
  /\ event = [s \in Sessions |-> "open"]     \* what started the session's run
  /\ typed = [s \in Sessions |-> Defaults]   \* the form as last submitted
  /\ vals = [s \in Sessions |-> Defaults]    \* the widgets' values
  /\ partial = [s \in Sessions |-> None]     \* load_model's local `model`
  /\ got = [s \in Sessions |-> NoPair]       \* the script's `model, le`
  /\ run = [s \in Sessions |-> NoRun]
  /\ view = [s \in Sessions |-> Blank]
  /\ erred = [s \in Sessions |-> FALSE]     \* the session has shown a prediction error

----------------------------------------------------------------------------
(* Browser events: each starts a run of the script from line 1 *)

StartRun(s, ev) ==
  /\ event' = [event EXCEPT ![s] = ev]
  /\ view' = [view EXCEPT ![s] = Blank]
  /\ run' = [run EXCEPT ![s] = NoRun]
  /\ got' = [got EXCEPT ![s] = NoPair]
  /\ pc' = [pc EXCEPT ![s] = "call"]
  /\ UNCHANGED <<files, cache, lock, loads, reads, loadFailed, memo, partial>>

\* the page is opened or reloaded: a fresh session, widgets at their defaults
Open(s) ==
  /\ pc[s] \in {"new", "idle"}
  /\ StartRun(s, "open")
  /\ typed' = [typed EXCEPT ![s] = Defaults]
  /\ vals' = [vals EXCEPT ![s] = Defaults]
  /\ erred' = [erred EXCEPT ![s] = FALSE]

\* the form is filled with t and its submit button pressed
Submit(s, t) ==
  /\ pc[s] = "idle"
  /\ view[s].form
  /\ StartRun(s, "submit")
  /\ typed' = [typed EXCEPT ![s] = t]
  /\ \E nv \in [ N           : number_input("N", vals[s].N, t.N),
                 P           : number_input("P", vals[s].P, t.P),
                 K           : number_input("K", vals[s].K, t.K),
                 ph          : number_input("ph", vals[s].ph, t.ph),
                 temperature : number_input("temperature", vals[s].temperature, t.temperature),
                 humidity    : number_input("humidity", vals[s].humidity, t.humidity),
                 rainfall    : number_input("rainfall", vals[s].rainfall, t.rainfall) ] :
       vals' = [vals EXCEPT ![s] = nv]
  /\ UNCHANGED erred

\* "Make Another Prediction" is pressed
Reset(s) ==
  /\ pc[s] = "idle"
  /\ view[s].reset
  /\ StartRun(s, "reset")
  /\ UNCHANGED <<typed, vals, erred>>

\* a reset that sends the form again
form_submit_button_sticky(ev) == ev \in {"submit", "reset"}

\* The value of st.form_submit_button in a run: True only in the run its own
\* press started.
form_submit_button(ev) == ev = "submit"

----------------------------------------------------------------------------
(* load_model under st.cache_resource, lines 16-28 *)

\* no mutual exclusion between computing callers
lock_ignored(l) == TRUE

\* the compute lock can be taken
lock_free(l) == l = None

\* where a run continues after the except clause: on to the form
after_load_error_continue == "script"

\* st.stop() of line 26 ends the run
after_load_error == "idle"

\* line 28: the cache is asked first, without the lock
Call(s) ==
  /\ pc[s] = "call"
  /\ IF cache # NoPair
       THEN /\ got' = [got EXCEPT ![s] = cache]
            /\ pc' = [pc EXCEPT ![s] = "script"]
       ELSE /\ pc' = [pc EXCEPT ![s] = "wait"]
            /\ UNCHANGED got
  /\ UNCHANGED <<files, cache, lock, loads, reads, loadFailed, memo,
                 event, typed, vals, partial, run, view, erred>>

\* a miss takes the compute lock and asks the cache again
Acquire(s) ==
  /\ pc[s] = "wait"
  /\ lock_free(lock)
  /\ IF cache # NoPair
       THEN /\ got' = [got EXCEPT ![s] = cache]
            /\ pc' = [pc EXCEPT ![s] = "script"]
            /\ UNCHANGED lock
       ELSE /\ lock' = s
            /\ pc' = [pc EXCEPT ![s] = "open_model"]
            /\ UNCHANGED got
  /\ UNCHANGED <<files, cache, loads, reads, loadFailed, memo,
                 event, typed, vals, partial, run, view, erred>>

\* lines 24-26: the error is shown, the lock released, the run stopped;
\* nothing is stored in the cache
LoadError(s) ==
  /\ view' = [view EXCEPT ![s] = [Blank EXCEPT !.loadError = TRUE]]
  /\ loadFailed' = TRUE
  /\ lock' = None
  /\ partial' = [partial EXCEPT ![s] = None]
  /\ pc' = [pc EXCEPT ![s] = after_load_error]
  /\ UNCHANGED <<cache, loads, got>>

\* lines 19-20
ReadModel(s) ==
  /\ pc[s] = "open_model"
  /\ reads' = [reads EXCEPT !.model = IF files.model = "absent" THEN @ ELSE Inc(@)]
  /\ IF files.model \in Unloadable
       THEN LoadError(s)
       ELSE /\ partial' = [partial EXCEPT ![s] = files.model]
            /\ pc' = [pc EXCEPT ![s] = "open_le"]
            /\ UNCHANGED <<cache, lock, loads, loadFailed, got, view>>
  /\ UNCHANGED <<files, memo, event, typed, vals, run, erred>>

\* lines 21-23, and the cache storing what the body returned
ReadEncoder(s) ==
  /\ pc[s] = "open_le"
  /\ reads' = [reads EXCEPT !.le = IF files.le = "absent" THEN @ ELSE Inc(@)]
  /\ IF files.le \in Unloadable
       THEN LoadError(s)
       ELSE /\ cache' = [model |-> partial[s], le |-> files.le]
            /\ loads' = Inc(loads)
            /\ got' = [got EXCEPT ![s] = cache']
            /\ lock' = None
            /\ partial' = [partial EXCEPT ![s] = None]
            /\ pc' = [pc EXCEPT ![s] = "script"]
            /\ UNCHANGED <<loadFailed, view>>
  /\ UNCHANGED <<files, memo, event, typed, vals, run, erred>>

\* an artifact that could not be loaded is put in place while the process runs
Deploy ==
  /\ \/ /\ files.model \in Unloadable
        /\ \E m \in ModelFiles \ Unloadable : files' = [files EXCEPT !.model = m]
     \/ /\ files.le \in Unloadable
        /\ \E e \in EncoderFiles \ Unloadable : files' = [files EXCEPT !.le = e]
  /\ UNCHANGED <<cache, lock, loads, reads, loadFailed, memo,
                 pc, event, typed, vals, partial, got, run, view, erred>>

----------------------------------------------------------------------------
(* The rest of the script, lines 30-184 *)

\* a pipeline that refits the shared encoder in place at every run, on the
\* classes seen or on all of them in turn
refit_encoder(c) ==
  IF c.le = "full" THEN [c EXCEPT !.le = "short"]
  ELSE IF c.le = "short" THEN [c EXCEPT !.le = "full"] ELSE c

\* the cached pair after a run of the script: nothing assigns to it
shared_state_after(c) == c

\* what memo may become after a run: a first recommendation may be kept
Remember(v) ==
  IF v.details.shown /\ memo = {}
    THEN {memo, {[vals |-> v.details.vals, crop |-> v.details.crop]}}
    ELSE {memo}

RunScript(s) ==
  /\ pc[s] = "script"
  /\ \E img \in ImageFiles :
       LET o == Script(form_submit_button(event[s]), got[s], vals[s], img) IN
       /\ view' = [view EXCEPT ![s] = [o.view EXCEPT !.loadError = view[s].loadError]]
       /\ run' = [run EXCEPT ![s] = o.run]
       /\ memo' \in Remember(o.view)
       /\ erred' = [erred EXCEPT ![s] = @ \/ o.view.error]
  /\ cache' = shared_state_after(cache)
  /\ pc' = [pc EXCEPT ![s] = "idle"]
  /\ UNCHANGED <<files, lock, loads, reads, loadFailed, event, typed, vals, partial, got>>

----------------------------------------------------------------------------
(* Specifications *)

NextOf(SS, TT) ==
  \/ \E s \in SS : Open(s)
  \/ \E s \in SS : \E t \in TT : Submit(s, t)
  \/ \E s \in SS : Reset(s)
  \/ \E s \in SS : Call(s)
  \/ \E s \in SS : Acquire(s)
  \/ \E s \in SS : ReadModel(s)
  \/ \E s \in SS : ReadEncoder(s)
  \/ \E s \in SS : RunScript(s)
  \/ Deploy

\* one session, every form
Next == NextOf({"s1"}, Samples)

Spec == Init /\ [][Next]_vars

\* every session, concurrently, with two forms
NextLoad == NextOf(Sessions, DefaultOnly)

SpecLoad == Init /\ [][NextLoad]_vars


----------------------------------------------------------------------------
(* Claims *)

\* the run a form submission started has ended
Submitted(s) == pc[s] = "idle" /\ event[s] = "submit"

LabelSet(le) == {Classes(le)[i] : i \in 1..Len(Classes(le))}

\* the run ended with a recommended crop on the page
Recommended(s) == view[s].headline # None /\ view[s].details.shown

\* C1: every submission whose seven typed fields lie within their bounds,
\* under a consistent classifier/encoder pair, ends with a recommended crop
\* name of the encoder's label set, never with a warning or an error.
C1_InBoundsRecommends ==
  \A s \in Sessions :
    (Submitted(s) /\ InBounds(typed[s]) /\ Consistent(got[s]))
      => /\ Recommended(s)
         /\ view[s].details.crop \in LabelSet(got[s].le)
         /\ ~view[s].warning
         /\ ~view[s].error

\* C2 as stated: a submission with a field typed outside its bound ends with a
\* validation message and the classifier is not invoked for it.
C2_OutOfBoundsRejected ==
  \A s \in Sessions :
    (Submitted(s) /\ ~InBounds(typed[s]))
      => (view[s].warning /\ run[s].calls = 0)

\* C2 amended: a value typed outside its bound is never committed by the number
\* input, so the widgets always hold in-bounds values, an out-of-bounds field
\* is replaced by its previous value or the violated limit, and the
\* classifier is only ever invoked on in-bounds values.
C2_OutOfBoundsNeverCommitted ==
  \A s \in Sessions :
    /\ InBounds(vals[s])
    /\ \A f \in Fields :
         (event[s] = "submit" /\ ~InRange(f, typed[s][f])) => vals[s][f] # typed[s][f]
    /\ run[s].calls = 1 =>
         /\ InRange("N", run[s].x[1])
         /\ InRange("P", run[s].x[2])
         /\ InRange("K", run[s].x[3])
         /\ InRange("temperature", run[s].x[4])
         /\ InRange("humidity", run[s].x[5])
         /\ InRange("ph", run[s].x[6])
         /\ InRange("rainfall", run[s].x[7])

\* C2 witness: a form with an out-of-bounds field was submitted and the
\* classifier ran on the value the widget held instead
C2_Witness ==
  \E s \in Sessions :
    Submitted(s) /\ ~InBounds(typed[s]) /\ run[s].calls = 1 /\ Recommended(s)

\* C3 as stated: once a load has failed, the process never serves: no form
\* is rendered, the classifier is never invoked, no recommendation is shown.
C3_FailedLoadNeverServes ==
  loadFailed =>
    \A s \in Sessions :
      ~view[s].form /\ run[s].calls = 0 /\ view[s].headline = None

\* C3 amended: a run whose load failed ends right there, with the load error
\* on the page and nothing else: no form, no classifier call, no
\* recommendation, no pair returned to the script.
C3_FailedLoadStopsRun ==
  \A s \in Sessions :
    view[s].loadError =>
      /\ pc[s] = "idle"
      /\ got[s] = NoPair
      /\ ~view[s].form
      /\ run[s].calls = 0
      /\ view[s].headline = None
      /\ ~view[s].details.shown
      /\ ~view[s].reset

\* C3 witness: a run stopped on a failed load
C3_Witness ==
  \E s \in Sessions : view[s].loadError /\ loadFailed /\ cache = NoPair

\* C4 as stated: each artifact is read at most once per process, no caller
\* holds a partial pair, every caller holds the cached pair.
C4_ReadOncePerProcess ==
  /\ reads.model <= 1
  /\ reads.le <= 1
  /\ \A s \in Sessions : got[s] # NoPair => (got[s] \in Pairs /\ got[s] = cache)

\* C4 amended: the pair is loaded successfully at most once per process and
\* while no load has failed each file is read at most once; nobody reads a
\* file once the pair is cached; a caller holds either nothing or the whole
\* cached pair, and reaches the script only holding it.
C4_LoadedOncePerProcess ==
  /\ loads <= 1
  /\ ~loadFailed => (reads.model <= 1 /\ reads.le <= 1)
  /\ cache # NoPair => \A s \in Sessions : pc[s] \notin {"open_model", "open_le"}
  /\ \A s \in Sessions :
       /\ got[s] # NoPair => (got[s] \in Pairs /\ got[s] = cache)
       /\ pc[s] = "script" => got[s] # NoPair

\* C4 witness: two sessions' first requests ran concurrently and both hold
\* the pair that was loaded once
C4_Witness ==
  /\ loads = 1
  /\ \A s \in Sessions : pc[s] = "script" /\ event[s] = "open" /\ got[s] = cache

\* C5: a submission on which the classifier raised, or whose class index the
\* encoder does not know, ends with the error message on the page and
\* nothing escaping the script; the form and the reset button are there for
\* the next submission, and a session that has shown such an error still
\* gets the right crop for a later submission.
C5_FailuresAreContained ==
  \A s \in Sessions :
    /\ (Submitted(s) /\ run[s].calls = 1 /\ run[s].crop = None)
         => /\ view[s].error
            /\ ~view[s].uncaught
            /\ view[s].form
            /\ view[s].reset
            /\ view[s].headline = None
            /\ ENABLED Submit(s, Defaults)
    /\ ~view[s].uncaught
    /\ (erred[s] /\ Recommended(s))
         => view[s].details.crop = Prediction(cache, vals[s]).crop

\* C5 witness: a session that showed a prediction error was served a
\* recommendation afterwards
C5_Witness ==
  \E s \in Sessions : erred[s] /\ Recommended(s) /\ ~view[s].error

\* C6: an accepted submission invokes the classifier once, on the vector
\* [N, P, K, temperature, humidity, pH, rainfall] of the widgets' values, and
\* the crop shown is the encoder's label of the index returned.
C6_VectorOrderAndDecode ==
  \A s \in Sessions :
    /\ Recommended(s) =>
         /\ run[s].calls = 1
         /\ run[s].x = <<vals[s].N, vals[s].P, vals[s].K, vals[s].temperature,
                         vals[s].humidity, vals[s].ph, vals[s].rainfall>>
         /\ run[s].index = predict(got[s].model, run[s].x).index
         /\ view[s].details.crop = Classes(got[s].le)[run[s].index + 1]
         /\ view[s].headline = Upper[view[s].details.crop]
    /\ (Submitted(s) /\ all_filled(vals[s])) => run[s].calls = 1

\* C6 witness: a recommendation for readings whose temperature and pH differ
C6_Witness ==
  \E s \in Sessions :
    Recommended(s) /\ vals[s].temperature # vals[s].ph /\ vals[s] # Defaults

\* C7: when no image exists at the path of the lowercased crop name, the
\* page carries the "no preview" note and the recommendation, and neither a
\* warning nor an error.
C7_MissingImageIsInfo ==
  \A s \in Sessions :
    run[s].img = "absent" =>
      /\ view[s].image = "info"
      /\ view[s].path = Lower[run[s].crop]
      /\ view[s].headline = Upper[run[s].crop]
      /\ view[s].details.shown
      /\ ~view[s].error
      /\ ~view[s].warning
      /\ ~view[s].uncaught

\* C7 witness: a recommended crop whose name is not lowercase has no image
C7_Witness ==
  \E s \in Sessions :
    run[s].img = "absent" /\ Recommended(s) /\ Lower[run[s].crop] # run[s].crop

\* C8: a recommendation comes with the reset button; the run the button
\* starts shows no result, and no run other than a form submission's invokes
\* the classifier.
C8_ResetClearsWithoutResubmit ==
  \A s \in Sessions :
    /\ (pc[s] = "idle" /\ view[s].headline # None) => view[s].reset
    /\ event[s] # "submit" =>
         /\ run[s].calls = 0
         /\ view[s].headline = None
         /\ ~view[s].details.shown
         /\ view[s].image = "none"
         /\ ~view[s].error
         /\ ~view[s].reset

\* C8 witness: the run after a reset has ended, the form is back
C8_Witness ==
  \E s \in Sessions : event[s] = "reset" /\ pc[s] = "idle" /\ view[s].form

\* C9: a submission of values that were recommended a crop before is
\* recommended the same crop, whatever happened in between.
C9_SameInputSameCrop ==
  \A s \in Sessions : \A m \in memo :
    (Submitted(s) /\ vals[s] = m.vals)
      => /\ Recommended(s)
         /\ view[s].details.crop = m.crop
         /\ view[s].headline = Upper[m.crop]

\* C9 witness: the remembered values were submitted again after a prediction
\* error in between
C9_Witness ==
  \E s \in Sessions : \E m \in memo :
    Submitted(s) /\ vals[s] = m.vals /\ erred[s] /\ Recommended(s)

\* C10: an image file that fails to open or render leaves only the image
\* warning: no prediction error, the recommended crop and the details with
\* the seven submitted values are on the page.
C10_ImageFailureIsContained ==
  \A s \in Sessions :
    run[s].img = "broken" =>
      /\ view[s].image = "warning"
      /\ ~view[s].error
      /\ ~view[s].uncaught
      /\ view[s].headline = Upper[run[s].crop]
      /\ view[s].details = [shown |-> TRUE, vals |-> vals[s], crop |-> run[s].crop]

\* C10 witness: a recommendation whose image failed to load
C10_Witness ==
  \E s \in Sessions : run[s].img = "broken" /\ view[s].image = "warning"

====
